---- MODULE Spec2Model ----
(***************************************************************************)
(* Runtime protobuf value model of serde-protobuf (src/src/value.rs):      *)
(* Message / Field / Value, the schema-driven decoder (merge_from,         *)
(* merge_from_masked) and the encoder (write_to, write_to_raw, into_vec).  *)
(*                                                                         *)
(* Bytes are integers 0..255, byte strings are sequences.  The stream      *)
(* primitives of the protobuf crate (CodedInputStream/CodedOutputStream)   *)
(* are modelled by what they do on the wire: base-128 varints, zigzag,     *)
(* little-endian fixed-width integers, tags (number * 8 + wire type) and   *)
(* the scoped read limit.  All integers used stay below 2^31, so the       *)
(* 32/64-bit truncations of the crate are the identity on them.            *)
(***************************************************************************)
EXTENDS Integers, Sequences, FiniteSets, TLC

VARIABLES
    msg,      \* the Message being decoded into / encoded
    prev,     \* msg as it was when the last operation began
    op,       \* the last operation: "new", "merge_from", "merge_from_masked",
              \* "field_merge_from", "write_to", "into_vec"
    items,    \* the wire items the last decode's input was built from
    mask,     \* the mask of the last merge_from_masked (<<>> otherwise)
    input,    \* the bytes handed to the last decode
    pos,      \* stream position when the last decode returned
    limit,    \* the stream's active limit when the last decode returned
    res,      \* result of the last operation: "Ok" or an error kind
    num,      \* field number of the last field-level operation (0 otherwise)
    out,      \* bytes produced by the last encode
    rt,       \* result of merging `out` into a fresh message (into_vec only)
    work      \* wire items consumed so far (bounds the exploration)

vars == <<msg, prev, op, items, mask, input, pos, limit, res, num, out, rt, work>>

(***************************************************************************)
(* Bounds of the exploration.                                              *)
(***************************************************************************)
\* Total number of leaf wire items merged along one behaviour.
MaxWork == 2

(***************************************************************************)
(* Wire types (protobuf::stream::wire_format::WireType).                   *)
(***************************************************************************)
WireTypeVarint == 0
WireTypeFixed64 == 1
WireTypeLengthDelimited == 2
WireTypeStartGroup == 3
WireTypeEndGroup == 4
WireTypeFixed32 == 5

\* CodedInputStream's "no limit" value of the active limit; larger than
\* every position of every input of the model.
NO_LIMIT == 1000000

Min(a, b) == IF a <= b THEN a ELSE b

\* F applied to the value of v, with v evaluated once.
Bind(v, F(_)) == CHOOSE y \in {F(x) : x \in {v}} : TRUE

\* Concatenation of a sequence of byte strings.
Concat(ss) ==
    Bind(ss, LAMBDA s :
        LET F[i \in 0..Len(s)] == IF i = 0 THEN <<>> ELSE F[i - 1] \o s[i]
        IN  F[Len(s)])

(***************************************************************************)
(* Descriptors (crate::descriptor).  Two message types:                    *)
(*   A { optional int32 x = 1;  repeated int32 ys = 2;  optional B b = 3;  *)
(*       optional fixed32 f = 4; optional sint32 s = 5;                    *)
(*       repeated fixed32 zs = 6; optional bytes by = 7;                   *)
(*       optional E e = 8; }                                               *)
(*   B { optional int32 c = 1;  optional int32 d = 2; }                    *)
(* No field has a static default, so default_value() is None.              *)
(***************************************************************************)
FD(n, nm, ty, rep, sub) ==
    [number |-> n, name |-> nm, type |-> ty, repeated |-> rep, message |-> sub]

Descriptors ==
    [A |-> << FD(1, "x", "Int32", FALSE, ""),
              FD(2, "ys", "Int32", TRUE, ""),
              FD(3, "b", "Message", FALSE, "B"),
              FD(4, "f", "Fixed32", FALSE, ""),
              FD(5, "s", "SInt32", FALSE, ""),
              FD(6, "zs", "Fixed32", TRUE, ""),
              FD(7, "by", "Bytes", FALSE, ""),
              FD(8, "e", "Enum", FALSE, "") >>,
     B |-> << FD(1, "c", "Int32", FALSE, ""),
              FD(2, "d", "Int32", FALSE, "") >>]

\* MessageDescriptor::fields
descriptor_fields(d) == Descriptors[d]

\* The declared field numbers of message type d.
Numbers(d) == {descriptor_fields(d)[i].number : i \in 1..Len(descriptor_fields(d))}

\* MessageDescriptor::field_by_number: a sequence holding the field
\* descriptor, or <<>> for None.
field_by_number(d, n) ==
    IF n \in Numbers(d)
    THEN <<CHOOSE fd \in {descriptor_fields(d)[i] : i \in 1..Len(descriptor_fields(d))} :
                    fd.number = n>>
    ELSE <<>>

(***************************************************************************)
(* Values, fields, messages.                                               *)
(*   Value   [k |-> variant, n |-> integer payload (varint kinds),         *)
(*            b |-> byte payload (Bytes, String, and the little-endian     *)
(*            image of the fixed-width kinds),                             *)
(*            m |-> <<message>> for the Message variant]                   *)
(*   Field   [rep |-> FALSE, vals |-> <<>> | <<v>>]   Singular(None|Some)  *)
(*           [rep |-> TRUE,  vals |-> <<v1, ...>>]    Repeated(Vec)        *)
(*   Message [descriptor, fields: number -> Field, unknown: sequence of    *)
(*            captured [number, wire_type, n, b] entries]                  *)
(***************************************************************************)
Num(k, n) == [k |-> k, n |-> n, b |-> <<>>, m |-> <<>>]
Blob(k, b) == [k |-> k, n |-> 0, b |-> b, m |-> <<>>]
Msg(m) == [k |-> "Message", n |-> 0, b |-> <<>>, m |-> <<m>>]

\* Field::new
Field_new(fd) == [rep |-> fd.repeated, vals |-> <<>>]

\* Message::new
Message_new(d) ==
    [descriptor |-> d,
     fields |-> [n \in Numbers(d) |-> Field_new(field_by_number(d, n)[1])],
     unknown |-> <<>>]

(***************************************************************************)
(* protobuf::CodedInputStream over a byte slice:                           *)
(*   [buf |-> bytes, pos |-> bytes consumed, limit |-> active limit].      *)
(* A read returns [ok, v, is]; a failed read is the crate's WireError.     *)
(***************************************************************************)
Stream(bytes) == [buf |-> bytes, pos |-> 0, limit |-> NO_LIMIT]

\* The position reads must stay below.
End(is) == Min(Len(is.buf), is.limit)

\* CodedInputStream::eof
eof(is) == is.pos >= End(is)

Fail(is) == [ok |-> FALSE, v |-> 0, is |-> is]

\* CodedInputStream::read_raw_byte
read_raw_byte(is) ==
    IF eof(is) THEN Fail(is)
    ELSE [ok |-> TRUE, v |-> is.buf[is.pos + 1], is |-> [is EXCEPT !.pos = @ + 1]]

RECURSIVE VarintLoop(_, _, _, _)
\* The base-128 loop: low 7 bits first, the high bit continues, at most
\* ten bytes.
VarintLoop(is, mult, acc, cnt) ==
    IF cnt = 10 THEN Fail(is)
    ELSE Bind(read_raw_byte(is), LAMBDA r :
         IF ~r.ok THEN Fail(r.is)
         ELSE Bind(acc + (r.v % 128) * mult, LAMBDA acc2 :
              IF r.v < 128 THEN [ok |-> TRUE, v |-> acc2, is |-> r.is]
              ELSE Bind(<<mult * 128, cnt + 1>>, LAMBDA p :
                   VarintLoop(r.is, p[1], acc2, p[2]))))

\* CodedInputStream::read_raw_varint64 (and read_raw_varint32)
read_raw_varint64(is) == VarintLoop(is, 1, 0, 0)

\* CodedInputStream::read_raw_bytes(count)
read_raw_bytes(is, count) ==
    IF is.pos + count > End(is) THEN Fail(is)
    ELSE [ok |-> TRUE, v |-> SubSeq(is.buf, is.pos + 1, is.pos + count),
          is |-> [is EXCEPT !.pos = @ + count]]

\* CodedInputStream::read_bytes: a length, then that many bytes.
read_bytes(is) ==
    Bind(read_raw_varint64(is), LAMBDA l :
    IF ~l.ok THEN Fail(l.is) ELSE read_raw_bytes(l.is, l.v))

\* CodedInputStream::read_tag_unpack: a varint split into (number, wire
\* type); wire types 6 and 7 and field number 0 are rejected.
read_tag_unpack(is) ==
    Bind(read_raw_varint64(is), LAMBDA r :
    IF ~r.ok THEN [ok |-> FALSE, number |-> 0, wire_type |-> 0, is |-> r.is]
    ELSE IF r.v % 8 \in {6, 7} \/ r.v \div 8 = 0
         THEN [ok |-> FALSE, number |-> 0, wire_type |-> 0, is |-> r.is]
         ELSE [ok |-> TRUE, number |-> r.v \div 8, wire_type |-> r.v % 8, is |-> r.is])

\* CodedInputStream::push_limit: [ok, old, is]
push_limit(is, len) ==
    IF is.pos + len > is.limit
    THEN [ok |-> FALSE, old |-> is.limit, is |-> is]
    ELSE [ok |-> TRUE, old |-> is.limit, is |-> [is EXCEPT !.limit = is.pos + len]]

\* CodedInputStream::pop_limit
pop_limit(is, old) == [is EXCEPT !.limit = old]

\* Zigzag decoding of read_sint32 / read_sint64.
decode_zig_zag(n) == IF n % 2 = 0 THEN n \div 2 ELSE -((n + 1) \div 2)

\* Zigzag encoding of write_sint32_no_tag / write_sint64_no_tag.
encode_zig_zag(n) == IF n >= 0 THEN 2 * n ELSE -2 * n - 1

(***************************************************************************)
(* The type dispatch of Field::merge_from_masked: per declared field type, *)
(* the wire type a single value must carry, the Value variant built, and   *)
(* the CodedInputStream reader used.                                       *)
(***************************************************************************)
PackableTypes ==
    {"Bool", "Int32", "Int64", "SInt32", "SInt64", "UInt32", "UInt64",
     "Fixed32", "Fixed64", "SFixed32", "SFixed64", "Float", "Double"}

\* First argument of the ps!/ss! macros (and what merge_enum and
\* merge_message test for).
expected_wire_type(ty) ==
    CASE ty \in {"Bool", "Int32", "Int64", "SInt32", "SInt64", "UInt32", "UInt64"}
            -> WireTypeVarint
      [] ty \in {"Fixed32", "SFixed32", "Float"} -> WireTypeFixed32
      [] ty \in {"Fixed64", "SFixed64", "Double"} -> WireTypeFixed64
      [] ty \in {"Bytes", "String", "Message"} -> WireTypeLengthDelimited
      [] ty = "Enum" -> WireTypeVarint

\* The Value constructor each arm passes (Value::Bool, Value::I32, ...).
value_ctor(ty) ==
    CASE ty = "Bool" -> "Bool"     [] ty = "Int32" -> "I32"
      [] ty = "Int64" -> "I64"     [] ty = "SInt32" -> "S32"
      [] ty = "SInt64" -> "S64"    [] ty = "UInt32" -> "U32"
      [] ty = "UInt64" -> "U64"    [] ty = "Fixed32" -> "Fixed32"
      [] ty = "Fixed64" -> "Fixed64"   [] ty = "SFixed32" -> "SFixed32"
      [] ty = "SFixed64" -> "SFixed64" [] ty = "Float" -> "F32"
      [] ty = "Double" -> "F64"    [] ty = "Bytes" -> "Bytes"
      [] ty = "String" -> "String" [] ty = "Enum" -> "Enum"
      [] ty = "Message" -> "Message"

\* value_ctor(reader(input)?): [ok, v, is] with v the Value read.
\* read_string accepts the ASCII subset of UTF-8.
reader(ty, is) ==
    CASE ty = "Bool" ->
            Bind(read_raw_varint64(is), LAMBDA r :
            [ok |-> r.ok, v |-> Num("Bool", IF r.v = 0 THEN 0 ELSE 1), is |-> r.is])
      [] ty \in {"Int32", "Int64", "UInt32", "UInt64"} ->
            Bind(read_raw_varint64(is), LAMBDA r :
            [ok |-> r.ok, v |-> Num(value_ctor(ty), r.v), is |-> r.is])
      [] ty \in {"SInt32", "SInt64"} ->
            Bind(read_raw_varint64(is), LAMBDA r :
            [ok |-> r.ok, v |-> Num(value_ctor(ty), decode_zig_zag(r.v)), is |-> r.is])
      [] ty \in {"Fixed32", "SFixed32", "Float"} ->
            Bind(read_raw_bytes(is, 4), LAMBDA r :
            [ok |-> r.ok, v |-> Blob(value_ctor(ty), IF r.ok THEN r.v ELSE <<>>),
             is |-> r.is])
      [] ty \in {"Fixed64", "SFixed64", "Double"} ->
            Bind(read_raw_bytes(is, 8), LAMBDA r :
            [ok |-> r.ok, v |-> Blob(value_ctor(ty), IF r.ok THEN r.v ELSE <<>>),
             is |-> r.is])
      [] ty = "Bytes" ->
            Bind(read_bytes(is), LAMBDA r :
            [ok |-> r.ok, v |-> Blob("Bytes", IF r.ok THEN r.v ELSE <<>>), is |-> r.is])
      [] ty = "String" ->
            Bind(read_bytes(is), LAMBDA r :
            [ok |-> r.ok /\ \A i \in 1..Len(r.v) : r.v[i] < 128,
             v |-> Blob("String", IF r.ok THEN r.v ELSE <<>>), is |-> r.is])

(***************************************************************************)
(* protobuf::rt::read_unknown_or_skip_group                                *)
(***************************************************************************)
\* CodedInputStream::read_unknown: the raw value of a field by wire type.
read_unknown(is, wire_type) ==
    CASE wire_type = WireTypeVarint ->
            Bind(read_raw_varint64(is), LAMBDA r :
            [ok |-> r.ok, n |-> r.v, b |-> <<>>, is |-> r.is])
      [] wire_type = WireTypeFixed64 ->
            Bind(read_raw_bytes(is, 8), LAMBDA r :
            [ok |-> r.ok, n |-> 0, b |-> IF r.ok THEN r.v ELSE <<>>, is |-> r.is])
      [] wire_type = WireTypeFixed32 ->
            Bind(read_raw_bytes(is, 4), LAMBDA r :
            [ok |-> r.ok, n |-> 0, b |-> IF r.ok THEN r.v ELSE <<>>, is |-> r.is])
      [] wire_type = WireTypeLengthDelimited ->
            Bind(read_bytes(is), LAMBDA r :
            [ok |-> r.ok, n |-> 0, b |-> IF r.ok THEN r.v ELSE <<>>, is |-> r.is])
      [] OTHER -> [ok |-> FALSE, n |-> 0, b |-> <<>>, is |-> is]

RECURSIVE skip_group(_)
\* protobuf::rt::skip_group: skip fields up to the matching end-group tag.
skip_group(is) ==
    Bind(read_tag_unpack(is), LAMBDA t :
    IF ~t.ok THEN [ok |-> FALSE, is |-> t.is]
    ELSE IF t.wire_type = WireTypeEndGroup THEN [ok |-> TRUE, is |-> t.is]
    ELSE Bind(read_unknown(t.is, t.wire_type), LAMBDA u :
         IF ~u.ok THEN [ok |-> FALSE, is |-> u.is] ELSE skip_group(u.is)))

\* read_unknown_or_skip_group(number, wire_type, input, unknown):
\* [ok, unknown, is]; a group is skipped, anything else is captured.
read_unknown_or_skip_group(number, wire_type, is, unknown) ==
    IF wire_type = WireTypeStartGroup
    THEN Bind(skip_group(is), LAMBDA g :
         [ok |-> g.ok, unknown |-> unknown, is |-> g.is])
    ELSE Bind(read_unknown(is, wire_type), LAMBDA u :
         [ok |-> u.ok,
          unknown |-> IF u.ok
                      THEN Append(unknown, [number |-> number, wire_type |-> wire_type,
                                            n |-> u.n, b |-> u.b])
                      ELSE unknown,
          is |-> u.is])

(***************************************************************************)
(* Decoding.  Every merge returns [self, is, res]: the receiver as the     *)
(* call leaves it (merges mutate in place, so what was stored before an    *)
(* error stays stored), the stream as the call leaves it, and "Ok" or the  *)
(* error: "BadWireType" (error::Error::BadWireType) or "WireError" (an     *)
(* error of the stream, passed on by `?`).                                 *)
(***************************************************************************)
Ret(self, is, r) == [self |-> self, is |-> is, res |-> r]

RECURSIVE Message_merge_from(_, _, _)
RECURSIVE Message_merge_from_masked(_, _, _, _)

\* Field::put
put(self, value) ==
    IF self.rep
    THEN [self EXCEPT !.vals = Append(@, value)]
    ELSE [self EXCEPT !.vals = <<value>>]

\* Field::merge_scalar
merge_scalar(self, is, actual_wire_type, expected, ty) ==
    IF expected = actual_wire_type
    THEN Bind(reader(ty, is), LAMBDA r :
         IF r.ok THEN Ret(put(self, r.v), r.is, "Ok")
         ELSE Ret(self, r.is, "WireError"))
    ELSE Ret(self, is, "BadWireType")

\* A loop that takes the first value of a run and skips the rest.
packed_loop_first(self, is, ty) ==
    IF eof(is) THEN Ret(self, is, "Ok")
    ELSE Bind(reader(ty, is), LAMBDA r :
         IF ~r.ok THEN Ret(self, r.is, "WireError")
         ELSE Ret(put(self, r.v), [r.is EXCEPT !.pos = End(r.is)], "Ok"))

RECURSIVE packed_loop(_, _, _)
\* The loop of merge_packable_scalar:
\*   while !input.eof()? { self.put(value_ctor(reader(input)?)); }
packed_loop(self, is, ty) ==
    IF eof(is) THEN Ret(self, is, "Ok")
    ELSE Bind(reader(ty, is), LAMBDA r :
         IF ~r.ok THEN Ret(self, r.is, "WireError")
         ELSE Bind(put(self, r.v), LAMBDA s2 : packed_loop(s2, r.is, ty)))

\* Field::merge_packable_scalar
merge_packable_scalar(self, is, actual_wire_type, expected, ty) ==
    IF WireTypeLengthDelimited = actual_wire_type
    THEN Bind(read_raw_varint64(is), LAMBDA len :
         IF ~len.ok THEN Ret(self, len.is, "WireError")
         ELSE Bind(push_limit(len.is, len.v), LAMBDA pl :
              IF ~pl.ok THEN Ret(self, pl.is, "WireError")
              ELSE Bind(packed_loop(self, pl.is, ty), LAMBDA lp :
                   IF lp.res # "Ok" THEN lp
                   ELSE Ret(lp.self, pop_limit(lp.is, pl.old), "Ok"))))
    ELSE merge_scalar(self, is, actual_wire_type, expected, ty)

\* Field::merge_enum
merge_enum(self, is, actual_wire_type) ==
    IF WireTypeVarint = actual_wire_type
    THEN Bind(read_raw_varint64(is), LAMBDA r :
         IF r.ok THEN Ret(put(self, Num("Enum", r.v)), r.is, "Ok")
         ELSE Ret(self, r.is, "WireError"))
    ELSE Ret(self, is, "BadWireType")

\* A merge that starts every occurrence from a fresh message.
taken_message_fresh(self, message) == Message_new(message)

\* The message merge_message starts from: the one a Singular field holds
\* (o.take()), else a fresh one.
taken_message(self, message) ==
    IF ~self.rep /\ self.vals # <<>> /\ self.vals[1].k = "Message"
    THEN self.vals[1].m[1]
    ELSE Message_new(message)

\* The field after o.take(): a Singular field is left None.
after_take(self) == IF self.rep THEN self ELSE [self EXCEPT !.vals = <<>>]

\* Field::merge_message
merge_message(self, is, message, actual_wire_type) ==
    IF WireTypeLengthDelimited = actual_wire_type
    THEN Bind(read_raw_varint64(is), LAMBDA len :
         IF ~len.ok THEN Ret(self, len.is, "WireError")
         ELSE Bind(<<taken_message(self, message), after_take(self)>>, LAMBDA tk :
              Bind(push_limit(len.is, len.v), LAMBDA pl :
              IF ~pl.ok THEN Ret(tk[2], pl.is, "WireError")
              ELSE Bind(Message_merge_from(tk[1], message, pl.is), LAMBDA mm :
                   IF mm.res # "Ok" THEN Ret(tk[2], mm.is, mm.res)
                   ELSE Ret(put(tk[2], Msg(mm.self)),
                            pop_limit(mm.is, pl.old), "Ok")))))
    ELSE Ret(self, is, "BadWireType")

\* Field::merge_message_masked
merge_message_masked(self, is, message, actual_wire_type, paths) ==
    IF WireTypeLengthDelimited = actual_wire_type
    THEN Bind(read_raw_varint64(is), LAMBDA len :
         IF ~len.ok THEN Ret(self, len.is, "WireError")
         ELSE Bind(<<taken_message(self, message), after_take(self)>>, LAMBDA tk :
              Bind(push_limit(len.is, len.v), LAMBDA pl :
              IF ~pl.ok THEN Ret(tk[2], pl.is, "WireError")
              ELSE Bind(Message_merge_from_masked(tk[1], message, pl.is, paths),
                        LAMBDA mm :
                   IF mm.res # "Ok" THEN Ret(tk[2], mm.is, mm.res)
                   ELSE Ret(put(tk[2], Msg(mm.self)),
                            pop_limit(mm.is, pl.old), "Ok")))))
    ELSE Ret(self, is, "BadWireType")

\* Option<Vec<&[&str]>>: None, Some(paths)
None == [some |-> FALSE, paths |-> <<>>]
Some(paths) == [some |-> TRUE, paths |-> paths]

\* Field::merge_from_masked: the dispatch on the declared type.
Field_merge_from_masked(self, field, is, wire_type, optmask) ==
    CASE field.type \in PackableTypes ->
            merge_packable_scalar(self, is, wire_type,
                                  expected_wire_type(field.type), field.type)
      [] field.type \in {"Bytes", "String"} ->
            merge_scalar(self, is, wire_type,
                         expected_wire_type(field.type), field.type)
      [] field.type = "Enum" -> merge_enum(self, is, wire_type)
      [] field.type = "Message" ->
            IF optmask.some
            THEN merge_message_masked(self, is, field.message, wire_type, optmask.paths)
            ELSE merge_message(self, is, field.message, wire_type)

\* Field::merge_from
Field_merge_from(self, field, is, wire_type) ==
    Field_merge_from_masked(self, field, is, wire_type, None)

\* Message::ensure_field: the message with the field's entry present.
ensure_field(self, field) ==
    IF field.number \in DOMAIN self.fields THEN self
    ELSE [self EXCEPT !.fields =
            [n \in DOMAIN self.fields \cup {field.number} |->
                IF n \in DOMAIN self.fields THEN self.fields[n] ELSE Field_new(field)]]

\* With the field's merge done: store what it left, stop on an error.
stored(e, number, r) == [e EXCEPT !.fields[number] = r.self]

\* Message::merge_from
Message_merge_from(self, message, is) ==
    IF eof(is) THEN Ret(self, is, "Ok")
    ELSE Bind(read_tag_unpack(is), LAMBDA t :
         IF ~t.ok THEN Ret(self, t.is, "WireError")
         ELSE Bind(field_by_number(message, t.number), LAMBDA fb :
              IF fb # <<>>
              THEN Bind(ensure_field(self, fb[1]), LAMBDA e :
                   Bind(Field_merge_from(e.fields[t.number], fb[1], t.is, t.wire_type),
                        LAMBDA r :
                   Bind(stored(e, t.number, r), LAMBDA s2 :
                        IF r.res # "Ok" THEN Ret(s2, r.is, r.res)
                        ELSE Message_merge_from(s2, message, r.is))))
              ELSE Bind(read_unknown_or_skip_group(t.number, t.wire_type, t.is,
                                                   self.unknown), LAMBDA u :
                   Bind([self EXCEPT !.unknown = u.unknown], LAMBDA s2 :
                        IF ~u.ok THEN Ret(s2, u.is, "WireError")
                        ELSE Message_merge_from(s2, message, u.is)))))

\* A selection that lets every declared field through.
mask_selects_all(paths, name) == TRUE

\* mask.iter().any(|p| p.first() == Some(&field_desc.name()))
mask_selects(paths, name) ==
    \E i \in 1..Len(paths) : Len(paths[i]) > 0 /\ paths[i][1] = name

\* The residual mask: the tails of the entries longer than one segment
\* that start with the field's name.
new_mask(paths, name) ==
    LET keep(p) == Len(p) > 1 /\ p[1] = name
        F[i \in 0..Len(paths)] ==
            IF i = 0 THEN <<>>
            ELSE IF keep(paths[i]) THEN Append(F[i - 1], Tail(paths[i]))
                 ELSE F[i - 1]
    IN  F[Len(paths)]

\* Message::merge_from_masked.  The bytes of a declared field the mask
\* does not select go to a scratch bag (trash_fields) that is dropped; for
\* a number the descriptor does not hold, the loop body does nothing.
Message_merge_from_masked(self, message, is, paths) ==
    IF eof(is) THEN Ret(self, is, "Ok")
    ELSE Bind(read_tag_unpack(is), LAMBDA t :
         IF ~t.ok THEN Ret(self, t.is, "WireError")
         ELSE Bind(field_by_number(message, t.number), LAMBDA fb :
              IF fb # <<>>
              THEN IF mask_selects(paths, fb[1].name)
                   THEN Bind(ensure_field(self, fb[1]), LAMBDA e :
                        Bind(new_mask(paths, fb[1].name), LAMBDA nm :
                        Bind(IF nm = <<>>
                             THEN Field_merge_from(e.fields[t.number], fb[1],
                                                   t.is, t.wire_type)
                             ELSE Field_merge_from_masked(e.fields[t.number], fb[1],
                                                          t.is, t.wire_type, Some(nm)),
                             LAMBDA r :
                        Bind(stored(e, t.number, r), LAMBDA s2 :
                             IF r.res # "Ok" THEN Ret(s2, r.is, r.res)
                             ELSE Message_merge_from_masked(s2, message, r.is, paths)))))
                   ELSE Bind(read_unknown_or_skip_group(t.number, t.wire_type,
                                                        t.is, <<>>), LAMBDA u :
                        IF ~u.ok THEN Ret(self, u.is, "WireError")
                        ELSE Message_merge_from_masked(self, message, u.is, paths))
              ELSE Message_merge_from_masked(self, message, t.is, paths)))

(***************************************************************************)
(* Encoding.  An encoder returns the bytes it writes to the stream.        *)
(***************************************************************************)
RECURSIVE write_raw_varint(_)
\* CodedOutputStream::write_raw_varint64 / write_raw_varint32 (n >= 0).
write_raw_varint(n) ==
    IF n < 128 THEN <<n>>
    ELSE Bind(n \div 128, LAMBDA q : <<(n % 128) + 128>> \o write_raw_varint(q))

\* CodedOutputStream::write_tag
stream_write_tag(field, wire_type) == write_raw_varint(field * 8 + wire_type)

\* The wire type Value::write_tag passes to stream.write_tag.
write_tag_wire_type(value) ==
    CASE value.k \in {"Bool", "I32", "I64", "U32", "U64", "Enum"} -> WireTypeVarint
      [] value.k \in {"F64", "S64", "Fixed64", "SFixed64"} -> WireTypeFixed64
      [] value.k \in {"F32", "S32", "Fixed32", "SFixed32"} -> WireTypeFixed32
      [] value.k \in {"String", "Message", "Bytes"} -> WireTypeLengthDelimited

\* Value::write_tag
Value_write_tag(value, tag) == stream_write_tag(tag, write_tag_wire_type(value))

RECURSIVE Message_write_to_raw(_)

\* Value::write_to_raw
Value_write_to_raw(value) ==
    CASE value.k \in {"Bool", "I32", "I64", "U32", "U64", "Enum"} ->
            write_raw_varint(value.n)
      [] value.k \in {"S32", "S64"} -> write_raw_varint(encode_zig_zag(value.n))
      [] value.k \in {"Fixed32", "SFixed32", "F32", "Fixed64", "SFixed64", "F64"} ->
            value.b
      [] value.k = "String" -> write_raw_varint(Len(value.b)) \o value.b
      [] value.k = "Bytes" -> value.b
      [] value.k = "Message" -> Message_write_to_raw(value.m[1])

\* Value::write_to
Value_write_to(value, tag) == Value_write_tag(value, tag) \o Value_write_to_raw(value)

\* The variants the Repeated arm of Field::write_to lists.
NumericVariants ==
    {"Bool", "I32", "I64", "S32", "S64", "U32", "U64", "F32", "F64",
     "SFixed32", "SFixed64", "Fixed32", "Fixed64"}

\* Field::write_to
Field_write_to(self, tag) ==
    IF ~self.rep
    THEN IF self.vals = <<>> THEN <<>> ELSE Value_write_to(self.vals[1], tag)
    ELSE IF self.vals # <<>> /\ self.vals[1].k \in NumericVariants
         THEN Value_write_tag(self.vals[1], tag)
              \o Concat([i \in 1..Len(self.vals) |-> Value_write_to_raw(self.vals[i])])
         ELSE Concat([i \in 1..Len(self.vals) |-> Value_write_to(self.vals[i], tag)])

RECURSIVE write_fields(_, _)
\* The loop of Message::write_to_raw over the BTreeMap: ascending numbers.
write_fields(self, numbers) ==
    IF numbers = {} THEN <<>>
    ELSE Bind(CHOOSE x \in numbers : \A y \in numbers : x <= y, LAMBDA n :
         Bind(numbers \ {n}, LAMBDA rest :
              Field_write_to(self.fields[n], n) \o write_fields(self, rest)))

\* Message::write_to_raw
Message_write_to_raw(self) ==
    Bind(DOMAIN self.fields, LAMBDA numbers : write_fields(self, numbers))

\* Message::into_vec
Message_into_vec(self) == Message_write_to_raw(self)

(***************************************************************************)
(* Inputs.  A decode input is the standard wire encoding of a sequence of  *)
(* wire items:                                                             *)
(*   one     a tag of the type's own wire type, then one value             *)
(*   packed  a length-delimited tag, a length, the values back to back     *)
(*   nested  a length-delimited tag, a length, the items of the submessage *)
(* An item names the field number it is sent to and the protobuf type it   *)
(* is encoded as; the two need not agree with the receiving descriptor     *)
(* (an undeclared number, a type of another wire type).                    *)
(***************************************************************************)
SV(n, b) == [n |-> n, b |-> b]
One(number, ty, sv) == [t |-> "one", number |-> number, ty |-> ty, vals |-> <<sv>>, sub |-> <<>>]
Packed(number, ty, svs) == [t |-> "packed", number |-> number, ty |-> ty, vals |-> svs, sub |-> <<>>]
Nested(number, sub) == [t |-> "nested", number |-> number, ty |-> "Message", vals |-> <<>>, sub |-> sub]

\* One scalar on the wire, by protobuf type.
WireScalar(ty, sv) ==
    CASE ty \in {"Bool", "Int32", "Int64", "UInt32", "UInt64", "Enum"} -> write_raw_varint(sv.n)
      [] ty \in {"SInt32", "SInt64"} -> write_raw_varint(encode_zig_zag(sv.n))
      [] ty \in {"Fixed32", "SFixed32", "Float", "Fixed64", "SFixed64", "Double"} -> sv.b
      [] ty \in {"Bytes", "String"} -> write_raw_varint(Len(sv.b)) \o sv.b

\* The wire type of an item's tag.
ItemWireType(it) ==
    IF it.t = "one" THEN expected_wire_type(it.ty) ELSE WireTypeLengthDelimited

RECURSIVE WireItem(_)
\* What follows an item's tag.
ItemPayload(it) ==
    CASE it.t = "one" -> WireScalar(it.ty, it.vals[1])
      [] it.t = "packed" ->
            Bind(Concat([i \in 1..Len(it.vals) |-> WireScalar(it.ty, it.vals[i])]),
                 LAMBDA body : write_raw_varint(Len(body)) \o body)
      [] it.t = "nested" ->
            Bind(Concat([i \in 1..Len(it.sub) |-> WireItem(it.sub[i])]),
                 LAMBDA body : write_raw_varint(Len(body)) \o body)

\* An item on the wire.
WireItem(it) == stream_write_tag(it.number, ItemWireType(it)) \o ItemPayload(it)

\* A sequence of items on the wire.
Wire(its) == Concat([i \in 1..Len(its) |-> WireItem(its[i])])

\* Items sent to a message of type B.
BLeaves ==
    { One(1, "Int32", SV(1, <<>>)),         \* c = 1
      One(2, "Int32", SV(2, <<>>)),         \* d = 2
      One(1, "Fixed32", SV(0, <<9, 0, 0, 0>>)) }  \* c with a fixed32 tag

\* Items sent to a message of type A, one leaf each.
ALeaves ==
    { One(1, "Int32", SV(1, <<>>)),         \* x = 1
      One(1, "Int32", SV(5, <<>>)),         \* x = 5
      One(2, "Int32", SV(300, <<>>)),       \* ys += 300
      Packed(2, "Int32", <<SV(1, <<>>), SV(2, <<>>), SV(3, <<>>)>>),
      Packed(4, "Fixed32", <<SV(0, <<1, 0, 0, 0>>)>>),      \* a run sent to f
      One(5, "SInt32", SV(-1, <<>>)),       \* s = -1
      One(6, "Fixed32", SV(0, <<7, 0, 0, 0>>)),             \* zs += 7
      Packed(6, "Fixed32", <<SV(0, <<7, 0, 0, 0>>), SV(0, <<8, 0, 0, 0>>)>>),
      One(9, "Int32", SV(8, <<>>)),         \* undeclared number 9, bytes 48 08
      One(9, "Int32", SV(72, <<>>)),        \* undeclared number 9, bytes 48 48
      Nested(3, <<>>) }                     \* b = {}

\* Further items, used to populate a message before it is encoded.
MoreLeaves ==
    { One(4, "Fixed32", SV(0, <<1, 0, 0, 0>>)),             \* f = 1
      One(7, "Bytes", SV(0, <<1, 2>>)),     \* by = 01 02
      One(8, "Enum", SV(3, <<>>)) }         \* e = 3

\* The leaves an item holds; an item with none counts as one.
Cost(it) == IF it.t = "nested" /\ it.sub # <<>> THEN Len(it.sub) ELSE 1

\* The sequences of length k over S.
SeqsOfLen(S, k) == [1..k -> S]

\* The items for A of cost k.
ItemsOfCost(k) ==
    (IF k = 1 THEN ALeaves ELSE {}) \cup {Nested(3, sub) : sub \in SeqsOfLen(BLeaves, k)}

\* The inputs of total cost at most r.
Inputs[r \in 0..MaxWork] ==
    IF r = 0 THEN {<<>>}
    ELSE {<<>>} \cup UNION { {<<it>> \o rest : it \in ItemsOfCost(k), rest \in Inputs[r - k]}
                            : k \in 1..r }

\* The leaves of a sequence of items.
TotalCost(its) ==
    LET F[i \in 0..Len(its)] == IF i = 0 THEN 0 ELSE F[i - 1] + Cost(its[i])
    IN  F[Len(its)]

\* The masks handed to merge_from_masked.
Masks ==
    { << <<"b", "c">> >>,
      << <<"x">>, <<"b">> >>,
      << <<"b">>, <<"b", "c">> >> }

(***************************************************************************)
(* The state machine: a caller holding one message of type A.              *)
(***************************************************************************)
Init ==
    /\ msg = Message_new("A")
    /\ prev = Message_new("A")
    /\ op = "new"
    /\ items = <<>>
    /\ mask = <<>>
    /\ input = <<>>
    /\ pos = 0
    /\ limit = NO_LIMIT
    /\ res = "Ok"
    /\ num = 0
    /\ out = <<>>
    /\ rt = Ret(Message_new("A"), Stream(<<>>), "Ok")
    /\ work = 0

Charge(its) == IF its = <<>> THEN 1 ELSE TotalCost(its)

\* msg.merge_from(descriptors, A, CodedInputStream::from_bytes(Wire(its)))
MergeFrom ==
    \E its \in Inputs[MaxWork - work] :
      \E bytes \in {Wire(its)} :
      \E r \in {Message_merge_from(msg, "A", Stream(bytes))} :
        /\ work + Charge(its) <= MaxWork
        /\ msg' = r.self
        /\ prev' = msg
        /\ op' = "merge_from"
        /\ items' = its
        /\ mask' = <<>>
        /\ input' = bytes
        /\ pos' = r.is.pos
        /\ limit' = r.is.limit
        /\ res' = r.res
        /\ num' = 0
        /\ work' = work + Charge(its)
        /\ UNCHANGED <<out, rt>>

\* msg.merge_from_masked(descriptors, A, CodedInputStream::from_bytes(..), paths)
MergeFromMasked ==
    \E its \in Inputs[MaxWork - work], paths \in Masks :
      \E bytes \in {Wire(its)} :
      \E r \in {Message_merge_from_masked(msg, "A", Stream(bytes), paths)} :
        /\ work + Charge(its) <= MaxWork
        /\ msg' = r.self
        /\ prev' = msg
        /\ op' = "merge_from_masked"
        /\ items' = its
        /\ mask' = paths
        /\ input' = bytes
        /\ pos' = r.is.pos
        /\ limit' = r.is.limit
        /\ res' = r.res
        /\ num' = 0
        /\ work' = work + Charge(its)
        /\ UNCHANGED <<out, rt>>

\* msg.fields[n].merge_from(descriptors, field n, input, wire_type): the
\* caller has read the tag of item `it` and hands over the rest.
FieldMergeFrom ==
    \E k \in 1..(MaxWork - work) : \E it \in ItemsOfCost(k) :
        /\ it.number \in Numbers("A")
        /\ \E bytes \in {ItemPayload(it)} :
           \E r \in {Field_merge_from(msg.fields[it.number],
                                      field_by_number("A", it.number)[1],
                                      Stream(bytes), ItemWireType(it))} :
               /\ msg' = [msg EXCEPT !.fields[it.number] = r.self]
               /\ prev' = msg
               /\ op' = "field_merge_from"
               /\ items' = <<it>>
               /\ mask' = <<>>
               /\ input' = bytes
               /\ pos' = r.is.pos
               /\ limit' = r.is.limit
               /\ res' = r.res
               /\ num' = it.number
               /\ work' = work + k
               /\ UNCHANGED <<out, rt>>

Next == MergeFrom \/ MergeFromMasked \/ FieldMergeFrom

Spec == Init /\ [][Next]_vars

(***************************************************************************)
(* The encoding side: a caller that populates a message with values of     *)
(* the declared kinds, then serializes it, or one field of it.             *)
(***************************************************************************)
\* The item is what a standard encoder emits for a field of message type d:
\* a declared number, the declared type, a run only for a repeated scalar.
WellTypedLeaf(it, d) ==
    /\ it.number \in Numbers(d)
    /\ LET fd == field_by_number(d, it.number)[1] IN
       /\ it.ty = fd.type
       /\ it.t = "packed" => fd.repeated /\ fd.type \in PackableTypes

WellTyped(it, d) ==
    /\ WellTypedLeaf(it, d)
    /\ it.t = "nested" =>
          \A i \in 1..Len(it.sub) :
              WellTypedLeaf(it.sub[i], field_by_number(d, it.number)[1].message)

AllWellTyped(its) == \A i \in 1..Len(its) : WellTyped(its[i], "A")

\* The well-typed items for A of cost k.
TypedItemsOfCost(k) ==
    {it \in ItemsOfCost(k) \cup (IF k = 1 THEN MoreLeaves ELSE {}) : WellTyped(it, "A")}

\* The well-typed inputs of total cost at most r.
TypedInputs[r \in 0..MaxWork] ==
    IF r = 0 THEN {<<>>}
    ELSE {<<>>} \cup UNION { {<<it>> \o rest : it \in TypedItemsOfCost(k),
                                               rest \in TypedInputs[r - k]}
                            : k \in 1..r }

\* Populate msg by decoding a well-typed input.
Populate ==
    \E its \in TypedInputs[MaxWork - work] :
      \E bytes \in {Wire(its)} :
      \E r \in {Message_merge_from(msg, "A", Stream(bytes))} :
        /\ its # <<>>
        /\ msg' = r.self
        /\ prev' = msg
        /\ op' = "merge_from"
        /\ items' = its
        /\ mask' = <<>>
        /\ input' = bytes
        /\ pos' = r.is.pos
        /\ limit' = r.is.limit
        /\ res' = r.res
        /\ num' = 0
        /\ work' = work + TotalCost(its)
        /\ UNCHANGED <<out, rt>>

\* msg.fields[n].clone().write_to(n, stream)
WriteTo ==
    \E n \in Numbers("A") :
        /\ op # "write_to" \/ num # n
        /\ out' = Field_write_to(msg.fields[n], n)
        /\ op' = "write_to"
        /\ num' = n
        /\ res' = "Ok"
        /\ prev' = msg
        /\ UNCHANGED <<msg, items, mask, input, pos, limit, rt, work>>

\* msg.clone().into_vec(), and the bytes merged into Message::new(A).
IntoVec ==
    /\ op # "into_vec"
    /\ \E bytes \in {Message_into_vec(msg)} :
         /\ out' = bytes
         /\ rt' = Message_merge_from(Message_new("A"), "A", Stream(bytes))
    /\ op' = "into_vec"
    /\ num' = 0
    /\ res' = "Ok"
    /\ prev' = msg
    /\ UNCHANGED <<msg, items, mask, input, pos, limit, work>>

NextEnc == Populate \/ WriteTo \/ IntoVec

SpecEnc == Init /\ [][NextEnc]_vars

(***************************************************************************)
(* Notions the properties are stated with.                                 *)
(***************************************************************************)
\* The field descriptor of a declared number.
Decl(d, n) == field_by_number(d, n)[1]

\* The value a scalar item carries, as the declared kind's variant.
ValueOf(ty, sv) ==
    IF ty \in {"Fixed32", "SFixed32", "Float", "Fixed64", "SFixed64", "Double",
               "Bytes", "String"}
    THEN Blob(value_ctor(ty), sv.b)
    ELSE Num(value_ctor(ty), sv.n)

\* The item's number is not declared in d.
Undeclared(it, d) == it.number \notin Numbers(d)

\* Every item is well typed for A or carries an undeclared number.
Standard(its) ==
    \A i \in 1..Len(its) : WellTyped(its[i], "A") \/ Undeclared(its[i], "A")

\* Every value of message m is of the declared kind of its field, nested
\* messages included (two levels: A and B).
ValidFields(m, d) ==
    /\ DOMAIN m.fields = Numbers(d)
    /\ \A n \in Numbers(d) :
         /\ m.fields[n].rep = Decl(d, n).repeated
         /\ ~m.fields[n].rep => Len(m.fields[n].vals) <= 1
         /\ \A i \in 1..Len(m.fields[n].vals) :
               m.fields[n].vals[i].k = value_ctor(Decl(d, n).type)

ValidMessage(m) ==
    /\ ValidFields(m, "A")
    /\ \A n \in Numbers("A") : \A i \in 1..Len(m.fields[n].vals) :
          m.fields[n].vals[i].k = "Message" =>
              /\ ValidFields(m.fields[n].vals[i].m[1], Decl("A", n).message)
              /\ m.fields[n].vals[i].m[1].unknown = <<>>

\* C1: round trip.  A message holding only values of the declared kinds and
\* no unknown bytes, serialized by into_vec and merged into a fresh message,
\* decodes without error to an equal message.
C1_RoundTrip ==
    (op = "into_vec" /\ ValidMessage(msg) /\ msg.unknown = <<>>)
        => (rt.res = "Ok" /\ rt.self = msg)

\* The packed form of a run of values under field number tag: one
\* length-delimited tag, the payload's byte length, the raw values in order.
PackedForm(vals, tag) ==
    Bind(Concat([i \in 1..Len(vals) |-> Value_write_to_raw(vals[i])]), LAMBDA payload :
         stream_write_tag(tag, WireTypeLengthDelimited)
             \o write_raw_varint(Len(payload)) \o payload)

\* The bytes of the scenario Msg{optional int32 x = 1; repeated int32 ys = 2}.
ScenarioBytes == <<8, 5, 18, 3, 1, 2, 3>>

\* C2: Field::write_to on a Repeated field of numeric scalars emits the
\* packed form; so the message decoded from 08 05 12 03 01 02 03 encodes
\* back to the same bytes.
C2_PackedEncoding ==
    /\ (op = "write_to" /\ msg.fields[num].rep /\ msg.fields[num].vals # <<>>
            /\ msg.fields[num].vals[1].k \in NumericVariants)
         => out = PackedForm(msg.fields[num].vals, num)
    /\ (op = "into_vec" /\ input = ScenarioBytes /\ prev = msg
            /\ msg = Message_merge_from(Message_new("A"), "A", Stream(ScenarioBytes)).self)
         => out = ScenarioBytes

\* C3: Field::merge_from on a non-repeated fixed32 field, handed a
\* length-delimited wire type, returns BadWireType and stores nothing.
C3_WireTypeRejection ==
    (op = "field_merge_from" /\ Decl("A", num).type = "Fixed32"
        /\ ~Decl("A", num).repeated
        /\ ItemWireType(items[1]) = WireTypeLengthDelimited)
        => (res = "BadWireType" /\ msg.fields[num] = prev.fields[num])

(***************************************************************************)
(* The merge contract, stated on the items an input carries and not on     *)
(* its bytes: a singular scalar takes the last value, a repeated field     *)
(* gains every value in order, a singular message field merges.            *)
(***************************************************************************)
RECURSIVE ContractItems(_, _, _)

\* What one item does to the fields of a message of type d.
ContractItem(m, d, it) ==
    IF Undeclared(it, d) THEN m
    ELSE LET old == m.fields[it.number].vals
             new == [i \in 1..Len(it.vals) |-> ValueOf(it.ty, it.vals[i])]
         IN  CASE it.t = "nested" ->
                     Bind(ContractItems(IF old # <<>> THEN old[1].m[1]
                                        ELSE Message_new(Decl(d, it.number).message),
                                        Decl(d, it.number).message, it.sub),
                          LAMBDA sub : [m EXCEPT !.fields[it.number].vals = <<Msg(sub)>>])
               [] it.t # "nested" /\ Decl(d, it.number).repeated ->
                     [m EXCEPT !.fields[it.number].vals = old \o new]
               [] OTHER ->
                     [m EXCEPT !.fields[it.number].vals = <<new[Len(new)]>>]

\* What a sequence of items does, first to last.
ContractItems(m, d, its) ==
    Bind(its, LAMBDA s :
        LET F[i \in 0..Len(s)] == IF i = 0 THEN m ELSE ContractItem(F[i - 1], d, s[i])
        IN  F[Len(s)])

\* C4: after a successful Message::merge_from, the fields are those the
\* merge contract gives from the fields before and the items of the input:
\* singular scalars hold the last occurrence, repeated fields are appended
\* to in wire order, a singular nested message keeps the sub-fields of its
\* earlier occurrences.
C4_MergeContract ==
    (op = "merge_from" /\ res = "Ok" /\ Standard(items))
        => msg.fields = ContractItems(prev, "A", items).fields

\* A second occurrence of b carrying only d is merged into a b that held c.
C4_Witness ==
    /\ op = "merge_from" /\ res = "Ok"
    /\ items = <<Nested(3, <<One(2, "Int32", SV(2, <<>>))>>)>>
    /\ prev.fields[3].vals # <<>>
    /\ prev.fields[3].vals[1].m[1].fields[1].vals = <<Num("I32", 1)>>
    /\ prev.fields[3].vals[1].m[1].fields[2].vals = <<>>
    /\ msg.fields[3].vals[1].m[1].fields[1].vals = <<Num("I32", 1)>>
    /\ msg.fields[3].vals[1].m[1].fields[2].vals = <<Num("I32", 2)>>

(***************************************************************************)
(* Mask selection as section 4.4 of the specification words it.            *)
(***************************************************************************)
\* Some entry's first segment is the name.
Selected(paths, name) ==
    \E i \in 1..Len(paths) : paths[i] # <<>> /\ Head(paths[i]) = name

\* Every entry that starts with the name goes on below it.
OnlyBelow(paths, name) ==
    \A i \in 1..Len(paths) :
        (paths[i] # <<>> /\ Head(paths[i]) = name) => Len(paths[i]) > 1

\* The remaining segments of the entries that start with the name.
Residual(paths, name) ==
    {Tail(paths[i]) : i \in {j \in 1..Len(paths) :
                                Len(paths[j]) > 1 /\ Head(paths[j]) = name}}

\* The message a singular message field holds, a fresh one if it holds none.
HeldMessage(f, d) == IF f.vals # <<>> THEN f.vals[1].m[1] ELSE Message_new(d)

\* C5: in a masked merge, wire data of a declared field that no mask entry
\* selects leaves the field as it was and reaches neither `fields` nor the
\* unknown bag, at the top level and inside a nested message selected only
\* by longer entries; with mask ["b.c"] a payload carrying c and d leaves
\* b.c populated and b.d at its default.
C5_MaskRestricts ==
    op = "merge_from_masked" =>
        /\ DOMAIN msg.fields = DOMAIN prev.fields
        /\ \A n \in Numbers("A") :
              ~Selected(mask, Decl("A", n).name) => msg.fields[n] = prev.fields[n]
        /\ \A i \in 1..Len(msg.unknown) :
              i > Len(prev.unknown) => msg.unknown[i].number \notin Numbers("A")
        /\ res = "Ok" =>
              \A n \in Numbers("A") :
                  (/\ Decl("A", n).type = "Message"
                   /\ Selected(mask, Decl("A", n).name)
                   /\ OnlyBelow(mask, Decl("A", n).name)
                   /\ msg.fields[n].vals # <<>>)
                  => LET d == Decl("A", n).message
                         now == msg.fields[n].vals[1].m[1]
                         was == HeldMessage(prev.fields[n], d)
                     IN  /\ now.unknown = was.unknown
                         /\ \A k \in Numbers(d) :
                              (\A p \in Residual(mask, Decl("A", n).name) :
                                    Head(p) # Decl(d, k).name)
                              => now.fields[k] = was.fields[k]
        /\ (/\ mask = << <<"b", "c">> >>
            /\ prev = Message_new("A")
            /\ items = <<Nested(3, <<One(1, "Int32", SV(1, <<>>)),
                                     One(2, "Int32", SV(2, <<>>))>>)>>)
           => /\ res = "Ok"
              /\ msg.fields[3].vals[1].m[1].fields[1].vals = <<Num("I32", 1)>>
              /\ msg.fields[3].vals[1].m[1].fields[2].vals = <<>>

\* Mask ["b.c"], a payload with b.c and b.d: c is merged, d is not.
C5_Witness ==
    /\ op = "merge_from_masked" /\ res = "Ok"
    /\ mask = << <<"b", "c">> >>
    /\ prev = Message_new("A")
    /\ items = <<Nested(3, <<One(1, "Int32", SV(1, <<>>)),
                             One(2, "Int32", SV(2, <<>>))>>)>>
    /\ msg.fields[3].vals # <<>>
    /\ msg.fields[3].vals[1].m[1].fields[1].vals = <<Num("I32", 1)>>

\* What the unknown bag captures for an item.
UnknownEntry(it) ==
    IF it.t = "one" /\ expected_wire_type(it.ty) = WireTypeVarint
    THEN [number |-> it.number, wire_type |-> WireTypeVarint,
          n |-> IF it.ty \in {"SInt32", "SInt64"} THEN encode_zig_zag(it.vals[1].n)
                ELSE it.vals[1].n,
          b |-> <<>>]
    ELSE IF it.t = "one" /\ it.ty \notin {"Bytes", "String"}
    THEN [number |-> it.number, wire_type |-> ItemWireType(it), n |-> 0,
          b |-> it.vals[1].b]
    ELSE [number |-> it.number, wire_type |-> WireTypeLengthDelimited, n |-> 0,
          b |-> read_bytes(Stream(ItemPayload(it))).v]

IsUndeclared(it) == Undeclared(it, "A")
IsDeclared(it) == ~Undeclared(it, "A")

\* The entries the undeclared items of an input leave, in wire order.
UnknownEntries(its) ==
    Bind(SelectSeq(its, IsUndeclared), LAMBDA u : [i \in 1..Len(u) |-> UnknownEntry(u[i])])

\* C6: in every decode, masked or not, wire data of an undeclared field
\* number is retained in the message's unknown bag and is no key of fields.
C6_UnknownRetention ==
    (op \in {"merge_from", "merge_from_masked"} /\ res = "Ok" /\ Standard(items))
        => /\ msg.unknown = prev.unknown \o UnknownEntries(items)
           /\ DOMAIN msg.fields = Numbers("A")

\* The repeated fields of numeric scalar kinds.
RepeatedNumeric(d) ==
    {n \in Numbers(d) : Decl(d, n).repeated /\ Decl(d, n).type \in PackableTypes}

\* The items with every run replaced by its values, one tag each.
Unpack(its) ==
    Bind(its, LAMBDA s :
        LET F[i \in 0..Len(s)] ==
                IF i = 0 THEN <<>>
                ELSE IF s[i].t = "packed"
                     THEN F[i - 1] \o [j \in 1..Len(s[i].vals) |->
                                          One(s[i].number, s[i].ty, s[i].vals[j])]
                     ELSE Append(F[i - 1], s[i])
        IN  F[Len(s)])

\* The values the items carry for field n, in wire order.
ValuesFor(its, n) ==
    Bind(its, LAMBDA s :
        LET F[i \in 0..Len(s)] ==
                IF i = 0 THEN <<>>
                ELSE IF s[i].number = n THEN F[i - 1] \o s[i].vals ELSE F[i - 1]
        IN  F[Len(s)])

\* C7: for a repeated numeric field, decoding the input as sent (runs and
\* single elements interleaved), decoding it with every element tagged on
\* its own, and decoding all its values as one run give the same sequence.
C7_PackedUnpacked ==
    (op = "merge_from" /\ res = "Ok" /\ Standard(items))
        => \A n \in RepeatedNumeric("A") :
             \E u \in {Message_merge_from(prev, "A", Stream(Wire(Unpack(items))))} :
             \E p \in {Message_merge_from(prev, "A",
                          Stream(Wire(<<Packed(n, Decl("A", n).type,
                                               ValuesFor(items, n))>>)))} :
                /\ u.res = "Ok" /\ p.res = "Ok"
                /\ msg.fields[n] = u.self.fields[n]
                /\ msg.fields[n] = p.self.fields[n]

\* A run of three and a single element for ys in one input.
C7_Witness ==
    /\ op = "merge_from" /\ res = "Ok"
    /\ items = <<Packed(2, "Int32", <<SV(1, <<>>), SV(2, <<>>), SV(3, <<>>)>>),
                 One(2, "Int32", SV(300, <<>>))>>
    /\ msg.fields[2].vals =
          prev.fields[2].vals
              \o <<Num("I32", 1), Num("I32", 2), Num("I32", 3), Num("I32", 300)>>

\* C8: when a field merge returns, with Ok or Err, the stream's active
\* limit is the one that was active when the call began.
C8_LimitRestored ==
    op = "field_merge_from" => limit = NO_LIMIT

\* The wire type the claim gives each Value variant.
ClaimedWireType(k) ==
    CASE k \in {"Bool", "I32", "I64", "U32", "U64", "S32", "S64", "Enum"} -> WireTypeVarint
      [] k \in {"F64", "Fixed64", "SFixed64"} -> WireTypeFixed64
      [] k \in {"F32", "Fixed32", "SFixed32"} -> WireTypeFixed32
      [] k \in {"String", "Bytes", "Message"} -> WireTypeLengthDelimited

\* C9: the wire type Value::write_tag puts in the tag is the one field
\* decode requires for a single value of the kind: varint for S32 and S64
\* as for the other integer kinds and Enum.
C9_TagWireType ==
    (op = "write_to" /\ ~msg.fields[num].rep /\ msg.fields[num].vals # <<>>
        /\ msg.fields[num].vals[1].k = value_ctor(Decl("A", num).type))
        => /\ out[1] % 8 = expected_wire_type(Decl("A", num).type)
           /\ out[1] % 8 = ClaimedWireType(msg.fields[num].vals[1].k)

\* C10: in a masked merge the payload of an undeclared field is consumed
\* before the next tag is read, so on an input where a declared, selected
\* field follows an undeclared one the decode ends as it does on the same
\* input without the undeclared fields, with the same selected fields.
C10_MaskedFraming ==
    (/\ op = "merge_from_masked" /\ Standard(items)
     /\ \E i, j \in 1..Len(items) :
           /\ i < j /\ IsUndeclared(items[i]) /\ IsDeclared(items[j])
           /\ Selected(mask, Decl("A", items[j].number).name))
        => \E ref \in {Message_merge_from_masked(prev, "A",
                           Stream(Wire(SelectSeq(items, IsDeclared))), mask)} :
              /\ res = ref.res
              /\ \A n \in Numbers("A") :
                    Selected(mask, Decl("A", n).name)
                        => msg.fields[n] = ref.self.fields[n]

\* Some entry of the mask is the single segment `name`.
FullEntry(paths, name) == \E i \in 1..Len(paths) : paths[i] = <<name>>

\* C11: when the mask holds an entry of exactly one segment naming field
\* f, a successful masked merge decodes f in full and unmasked, whatever
\* other entries the mask holds (longer entries starting with f included):
\* f ends as the merge contract gives it from all the items of the input.
C11_FullEntry ==
    (/\ op = "merge_from_masked" /\ res = "Ok"
     /\ \A i \in 1..Len(items) : WellTyped(items[i], "A"))
        => \A n \in Numbers("A") :
              FullEntry(mask, Decl("A", n).name)
                  => msg.fields[n] = ContractItems(prev, "A", items).fields[n]

====
